---- MODULE Spec2Model ----
(***************************************************************************)
(* A model of src/Classifier/DenseNet/densenet.py: the DenseNet graph      *)
(* builder.  A tensor is modelled by its channels_last shape (rows, cols,  *)
(* channels); a graph is the sequence of the stages built so far.  The     *)
(* entry points of the file are modelled as calls: DenseNet (validation,   *)
(* Input creation, __create_dense_net), __create_fcn_dense_net, and the    *)
(* helpers __dense_block, __transition_block, __transition_up_block and    *)
(* SubPixelUpscaling, each applied to inputs drawn from bounded sets.      *)
(*                                                                         *)
(* The reduction factor is the exact rational red / den, so that            *)
(* int(nb_filter * (1.0 - reduction)) is (nb_filter * (den - red)) \div    *)
(* den.                                                                    *)
(***************************************************************************)
EXTENDS Integers, Sequences, FiniteSets, TLC

\* ------------------------------------------------------------------ bounds
MaxBlocks == 2       \* nb_dense_block ranges over 1..MaxBlocks
MaxLayers == 2       \* a layer count given by the caller is in 1..MaxLayers
MaxDepthOff == 6     \* depth ranges over 4..4+MaxDepthOff
MaxGrowth == 2       \* growth_rate ranges over 1..MaxGrowth
MaxDim == 3          \* rows and cols of a helper's input are in 1..MaxDim
MaxChan == 5         \* channels of a helper's input are in 1..MaxChan
RedDen == 2          \* a drawn reduction is k / RedDen, k in 0..RedDen+1

\* ------------------------------------------------------- program constants
DefaultSize == 32        \* _obtain_input_shape(default_size=32)
ImageNetClasses == 1000  \* classes the pretrained head has
InitConvFilters == 48    \* __create_fcn_dense_net(init_conv_filters=48)

VARIABLES entry, cfg, pc, err, graph, x, nb_filter, nb_layers, final_nb_layer,
          block_idx, fin, out, fcn

vars == <<entry, cfg, pc, err, graph, x, nb_filter, nb_layers, final_nb_layer,
          block_idx, fin, out, fcn>>

\* --------------------------------------------------------- tensor shapes
Shape(h, w, c) == [h |-> h, w |-> w, c |-> c]

NoTensor == Shape(0, 0, 0)

CeilDiv(a, b) == (a + b - 1) \div b

\* Conv2D(filters, kernel, padding='same', strides=(s, s))
Conv2D(ip, filters, s) == Shape(CeilDiv(ip.h, s), CeilDiv(ip.w, s), filters)

\* MaxPooling2D((3, 3), strides=(2, 2), padding='same')
MaxPooling2D(ip) == Shape(CeilDiv(ip.h, 2), CeilDiv(ip.w, 2), ip.c)

\* AveragePooling2D((2, 2), strides=(2, 2)), padding 'valid':
\* output length (n - pool + stride) // stride
AveragePooling2D(ip) == Shape((ip.h - 2 + 2) \div 2, (ip.w - 2 + 2) \div 2, ip.c)

\* UpSampling2D(): size (2, 2), channels untouched
UpSampling2D(ip) == Shape(2 * ip.h, 2 * ip.w, ip.c)

\* Conv2DTranspose(filters, (3, 3), padding='same', strides=(2, 2))
Conv2DTranspose(ip, filters) == Shape(2 * ip.h, 2 * ip.w, filters)

\* concatenate([a, b], axis=concat_axis)
concatenate(a, b) == Shape(a.h, a.w, a.c + b.c)

\* BatchNormalization, Activation and Dropout keep the shape
SameShape(ip) == ip

\* --------------------------------------------------- results of a helper
Ok(t) == [ok |-> TRUE, err |-> "none", t |-> t]

Raise(e) == [ok |-> FALSE, err |-> e, t |-> NoTensor]

\* ---------------------------------------------------- SubPixelUpscaling
\* channels_last branch: (b, r, c, k) -> (b, r * s, c * s, k // s ** 2)
compute_output_shape(input_shape, scale_factor) ==
    Shape(input_shape.h * scale_factor, input_shape.w * scale_factor,
          input_shape.c \div (scale_factor * scale_factor))

\* The module binds K (twice) but no import or assignment binds K_BACKEND.
K_BACKEND_bound == FALSE

\* call(): y = K_BACKEND.depth_to_space(x, scale_factor, data_format).  The
\* lookup of the global K_BACKEND comes first; the backend's depth_to_space
\* would give the shape compute_output_shape declares.
SubPixelUpscaling_call(ip, scale_factor) ==
    IF K_BACKEND_bound
        THEN Ok(compute_output_shape(ip, scale_factor))
        ELSE Raise("NameError")

\* ------------------------------------------------------------ __conv_block
\* conv_block returning the bottleneck's tensor, the 3x3 convolution left out.
conv_block_no_final_conv(ip, nbf, bottleneck) ==
    LET a == SameShape(SameShape(ip))
    IN  IF bottleneck
            THEN SameShape(SameShape(Conv2D(a, nbf * 4, 1)))
            ELSE SameShape(Conv2D(a, nbf, 1))

\* BN, relu, optional 1x1 bottleneck to 4 * nb_filter, 3x3 conv to nb_filter,
\* optional dropout
conv_block(ip, nbf, bottleneck) ==
    LET a == SameShape(SameShape(ip))
        b == IF bottleneck
                THEN SameShape(SameShape(Conv2D(a, nbf * 4, 1)))
                ELSE a
    IN  SameShape(Conv2D(b, nbf, 1))

\* ----------------------------------------------------------- __dense_block
\* One record per loop state: the running tensor, the tracked filter count
\* and x_list.  dense_step is one iteration of the loop body.
dense_step(st, growth_rate, bottleneck, grow_nb_filters) ==
    LET cb == conv_block(st.x, growth_rate, bottleneck)
    IN  [x |-> concatenate(st.x, cb),
         nb_filter |-> IF grow_nb_filters THEN st.nb_filter + growth_rate
                                          ELSE st.nb_filter,
         x_list |-> Append(st.x_list, cb)]

\* i iterations from the loop state st, in order: the first i \div 2, then
\* the rest.  The state after the first half is a member of a one-element
\* set, so that it is a value before the second half starts: the 64-layer
\* blocks of the ImageNet factories then need a stack of depth log2(64).
RECURSIVE dense_loop(_, _, _, _, _)
dense_loop(i, st, growth_rate, bottleneck, grow_nb_filters) ==
    IF i = 0 THEN st
    ELSE IF i = 1
        THEN dense_step(st, growth_rate, bottleneck, grow_nb_filters)
    ELSE CHOOSE r \in
             {dense_loop(i - (i \div 2), half, growth_rate, bottleneck,
                         grow_nb_filters) :
                 half \in {dense_loop(i \div 2, st, growth_rate, bottleneck,
                                      grow_nb_filters)}} : TRUE

\* dense_block with grow_nb_filters taken as False whatever the caller passes.
dense_block_untracked(ip, nb_layers_, nbf, growth_rate, bottleneck, grow_nb_filters) ==
    dense_loop(IF nb_layers_ > 0 THEN nb_layers_ ELSE 0,
               [x |-> ip, nb_filter |-> nbf, x_list |-> <<ip>>],
               growth_rate, bottleneck, FALSE)

\* range(nb_layers) is empty for nb_layers <= 0
dense_block(ip, nb_layers_, nbf, growth_rate, bottleneck, grow_nb_filters) ==
    dense_loop(IF nb_layers_ > 0 THEN nb_layers_ ELSE 0,
               [x |-> ip, nb_filter |-> nbf, x_list |-> <<ip>>],
               growth_rate, bottleneck, grow_nb_filters)

\* ------------------------------------------------------ __transition_block
\* A ratio num / den, den > 0
Ratio(num, den) == [num |-> num, den |-> den]

\* int(nb_filter * compression) for a compression >= 0
int_times(nbf, comp) == (nbf * comp.num) \div comp.den

\* transition_block compressing the tensor's channels, not nb_filter.
transition_block_of_channels(ip, nbf, comp) ==
    AveragePooling2D(Conv2D(SameShape(SameShape(ip)), int_times(ip.c, comp), 1))

\* BN, relu, 1x1 conv to int(nb_filter * compression), 2x2 average pooling
transition_block(ip, nbf, comp) ==
    AveragePooling2D(Conv2D(SameShape(SameShape(ip)), int_times(nbf, comp), 1))

\* --------------------------------------------------- __transition_up_block
transition_up_block(ip, nb_filters, type) ==
    IF type = "upsampling" THEN Ok(UpSampling2D(ip))
    ELSE IF type = "subpixel"
        THEN LET c1 == Conv2D(ip, nb_filters, 1)
                 u == SubPixelUpscaling_call(c1, 2)
             IN  IF u.ok THEN Ok(Conv2D(u.t, nb_filters, 1)) ELSE u
    ELSE Ok(Conv2DTranspose(ip, nb_filters))

\* The tensors the block makes, in the order it makes them: one for
\* 'upsampling' and 'deconv'; for 'subpixel' the first convolution, then the
\* upscaled tensor and the second convolution if the upscaling returns.
transition_up_tensors(ip, nb_filters, type) ==
    IF type = "upsampling" THEN <<UpSampling2D(ip)>>
    ELSE IF type = "subpixel"
        THEN LET c1 == Conv2D(ip, nb_filters, 1)
                 u == SubPixelUpscaling_call(c1, 2)
             IN  IF u.ok THEN <<c1, u.t, Conv2D(u.t, nb_filters, 1)>>
                         ELSE <<c1>>
    ELSE <<Conv2DTranspose(ip, nb_filters)>>

\* ------------------------------------------------------------ input sets
RECURSIVE SeqsOfLen(_, _)
SeqsOfLen(S, n) ==
    IF n = 0 THEN {<<>>}
    ELSE {Append(q, e) : q \in SeqsOfLen(S, n - 1), e \in S}

LayerLists == UNION {SeqsOfLen(1..MaxLayers, n) : n \in 1..(MaxBlocks + 1)}

IntLayers(n) == [kind |-> "int", n |-> n, list |-> <<>>]

ListLayers(l) == [kind |-> "list", n |-> 0, list |-> l]

\* nb_layers_per_block with the depth it is read with: depth is read only
\* when nb_layers_per_block == -1, otherwise it keeps its default.
DefaultDepth == 40

LayerArgs ==
    {[nlpb |-> IntLayers(-1), depth |-> 4 + k] : k \in 0..MaxDepthOff}
    \cup {[nlpb |-> IntLayers(n), depth |-> DefaultDepth] : n \in 1..MaxLayers}
    \cup {[nlpb |-> ListLayers(l), depth |-> DefaultDepth] : l \in LayerLists}

Weights == {"None", "imagenet", "cifar10"}

Activations == {"softmax", "sigmoid", "relu"}

Classes == {1, 2, ImageNetClasses}

InputTensors == {"None", "keras_tensor"}

DefaultFilter == 8   \* nb_filter=8 of the DenseNetImageNet factories

Config(wt, top, cl, act, it, la, nb, g, nf, bn, r, sub) ==
    [weights |-> wt, include_top |-> top, classes |-> cl, activation |-> act,
     input_tensor |-> it, depth |-> la.depth, nb_dense_block |-> nb,
     growth_rate |-> g, nb_filter |-> nf, nb_layers_per_block |-> la.nlpb,
     bottleneck |-> bn, reduction |-> r, subsample_initial_block |-> sub]

\* Every combination of the arguments the checks of DenseNet read, the
\* builder's arguments at the defaults of the signature.
HeadConfigs ==
    {Config(wt, top, cl, act, it,
            [nlpb |-> IntLayers(-1), depth |-> DefaultDepth], 3, 12, -1,
            FALSE, Ratio(0, 1), FALSE) :
        wt \in Weights, top \in BOOLEAN, cl \in Classes, act \in Activations,
        it \in InputTensors}

\* Every combination of the arguments __create_dense_net reads before the
\* head, under arguments the checks of DenseNet accept.
BuildConfigs ==
    {Config("None", top, 2, "softmax", it, la, nb, g, nf, bn,
            Ratio(r, RedDen), sub) :
        top \in BOOLEAN, it \in InputTensors, la \in LayerArgs,
        nb \in 1..MaxBlocks, g \in 1..MaxGrowth, nf \in {-1, DefaultFilter},
        bn \in BOOLEAN, r \in 0..(RedDen + 1), sub \in BOOLEAN}

\* DenseNetImageNet121, 169, 201, 264 and 161 with their default arguments:
\* what each passes to DenseNet.
Factory(depth, g, l, wt) ==
    Config(wt, TRUE, ImageNetClasses, "softmax", "None",
           [nlpb |-> ListLayers(l), depth |-> depth], 4, g, DefaultFilter,
           TRUE, Ratio(1, 2), TRUE)

FactoryConfigs ==
    {Factory(121, 12, <<6, 12, 24, 16>>, "imagenet"),
     Factory(169, 12, <<6, 12, 32, 32>>, "imagenet"),
     Factory(201, 16, <<6, 12, 48, 32>>, "None"),
     Factory(201, 16, <<6, 12, 64, 48>>, "None"),
     Factory(161, 12, <<6, 12, 36, 24>>, "imagenet")}

Configs == HeadConfigs \cup BuildConfigs \cup FactoryConfigs

NoConfig ==
    [weights |-> "None", include_top |-> TRUE, classes |-> 1,
     activation |-> "softmax", input_tensor |-> "None", depth |-> DefaultDepth,
     nb_dense_block |-> 1, growth_rate |-> 1, nb_filter |-> -1,
     nb_layers_per_block |-> IntLayers(-1), bottleneck |-> FALSE,
     reduction |-> Ratio(0, 1),
     subsample_initial_block |-> FALSE]

Shapes == {Shape(h, w, c) : h \in 1..MaxDim, w \in 1..MaxDim, c \in 1..MaxChan}

UpTypes == {"upsampling", "subpixel", "deconv"}

\* The arguments of a helper called on its own.
HelperArgs(ip, n, nf, g, bn, grow, comp, type, scale) ==
    [x |-> ip, nb_layers |-> n, nb_filter |-> nf, growth_rate |-> g,
     bottleneck |-> bn, grow_nb_filters |-> grow, comp |-> comp, type |-> type,
     scale_factor |-> scale]

NoArgs ==
    HelperArgs(NoTensor, 0, 0, 0, FALSE, FALSE, Ratio(1, 1), "deconv", 1)

NoOut == [ok |-> FALSE, err |-> "none", t |-> NoTensor, nb_filter |-> 0,
          x_list |-> <<>>]

HelperCalls ==
    {[entry |-> "dense_block",
      fin |-> HelperArgs(ip, n, nf, g, bn, grow, Ratio(1, 1), "deconv", 1)] :
        ip \in Shapes, n \in 0..MaxLayers, nf \in 1..MaxChan, g \in 1..MaxGrowth,
        bn \in BOOLEAN, grow \in BOOLEAN}
    \cup {[entry |-> "transition_block",
           fin |-> HelperArgs(ip, 0, nf, 0, FALSE, FALSE, Ratio(k, RedDen),
                              "deconv", 1)] :
        ip \in Shapes, nf \in 1..MaxChan, k \in 0..RedDen}
    \cup {[entry |-> "transition_up_block",
           fin |-> HelperArgs(ip, 0, nf, 0, FALSE, FALSE, Ratio(1, 1), type,
                              1)] :
        ip \in Shapes, nf \in 1..MaxChan, type \in UpTypes}
    \cup {[entry |-> e,
           fin |-> HelperArgs(ip, 0, 0, 0, FALSE, FALSE, Ratio(1, 1),
                              "subpixel", s)] :
        e \in {"SubPixelUpscaling", "compute_output_shape"},
        ip \in Shapes, s \in 1..MaxDim}

\* --------------------------------- arguments of __create_fcn_dense_net
RECURSIVE Pow2(_)
Pow2(n) == IF n = 0 THEN 1 ELSE 2 * Pow2(n - 1)

\* img_input has the shape input_shape names
FcnArgs(rows, cols, nb, g, red, nlpb, type, head) ==
    [nb_classes |-> 2, img_input |-> Shape(rows, cols, 3),
     include_top |-> head.include_top, nb_dense_block |-> nb,
     growth_rate |-> g, reduction |-> red, nb_layers_per_block |-> nlpb,
     upsampling_type |-> type, init_conv_filters |-> InitConvFilters,
     input_shape |-> Shape(rows, cols, 3), activation |-> head.activation]

\* include_top with the activation: 'deconv' is the parameter's default
FcnHead(top, act) == [include_top |-> top, activation |-> act]

FcnHeads ==
    {FcnHead(FALSE, "deconv"), FcnHead(TRUE, "deconv"),
     FcnHead(TRUE, "softmax")}

\* Layer counts of a segmentation build are at least 2: a block's per-layer
\* outputs are joined by concatenate, which is called on two tensors or more.
FcnLayerCounts == 2..(MaxLayers + 1)

\* an int, or a list of nb or nb + 1 entries
FcnLayerArgs(nb) ==
    {IntLayers(n) : n \in FcnLayerCounts}
    \cup {ListLayers(l) : l \in SeqsOfLen(FcnLayerCounts, nb)
                                 \cup SeqsOfLen(FcnLayerCounts, nb + 1)}

\* Every image size up to 2^MaxBlocks with one layer plan; with the image
\* size 2^nb_dense_block, every layer plan, and every growth rate and
\* reduction with the int layer plans.
FcnCalls ==
    {FcnArgs(rows, cols, nb, 1, Ratio(0, RedDen), IntLayers(2), type, head) :
        rows \in 1..Pow2(MaxBlocks), cols \in 1..Pow2(MaxBlocks),
        nb \in 1..MaxBlocks, type \in UpTypes, head \in FcnHeads}
    \cup UNION {{FcnArgs(Pow2(nb), Pow2(nb), nb, 1, Ratio(0, RedDen), nlpb,
                         type, FcnHead(TRUE, "softmax")) :
                    nlpb \in FcnLayerArgs(nb), type \in UpTypes} :
                nb \in 1..MaxBlocks}
    \cup {FcnArgs(Pow2(nb), Pow2(nb), nb, g, Ratio(k, RedDen), IntLayers(n),
                  type, FcnHead(TRUE, "softmax")) :
            nb \in 1..MaxBlocks, g \in 1..MaxGrowth, k \in 0..(RedDen + 1),
            n \in FcnLayerCounts, type \in UpTypes}

\* The locals of __create_fcn_dense_net.  A skip_list entry is the tensor
\* with the encoder stage that recorded it; joined is the history of the
\* skip concatenations: the decoder stage and the stage of the entry it read.
NoFcn ==
    [skip_list |-> <<>>, concat_list |-> <<>>, bottleneck_nb_layers |-> 0,
     n_filters_keep |-> 0, l |-> NoTensor, t |-> NoTensor, x_up |-> NoTensor,
     joined |-> <<>>]

\* ------------------------------------------------------------------ Init
InitLocals ==
    /\ err = "none"
    /\ graph = <<>>
    /\ x = NoTensor
    /\ nb_filter = 0
    /\ nb_layers = <<>>
    /\ final_nb_layer = 0
    /\ block_idx = 0
    /\ out = NoOut
    /\ fcn = NoFcn

Init ==
    /\ InitLocals
    /\ \/ /\ entry = "DenseNet"
          /\ cfg \in Configs
          /\ fin = NoArgs
          /\ pc = "validate"
       \/ /\ \E hc \in HelperCalls : entry = hc.entry /\ fin = hc.fin
          /\ cfg = NoConfig
          /\ pc = "call"
       \/ /\ entry = "create_fcn_dense_net"
          /\ fin \in FcnCalls
          /\ cfg = NoConfig
          /\ pc = "call"

\* --------------------------------------------------------------- DenseNet
Node(op, layers, t) == [op |-> op, layers |-> layers, t |-> t]

\* DenseNet_check with the imagenet check raising without include_top.
DenseNet_check_ignores_top(c) ==
    IF c.weights \notin {"imagenet", "None"} THEN "ValueError:weights"
    ELSE IF c.weights = "imagenet" /\ c.classes # ImageNetClasses
        THEN "ValueError:classes"
    ELSE IF c.activation \notin {"softmax", "sigmoid"}
        THEN "ValueError:activation"
    ELSE IF c.activation = "sigmoid" /\ c.classes # 1
        THEN "ValueError:sigmoid"
    ELSE "none"

\* DenseNet_check with the sigmoid check comparing classes with 2.
DenseNet_check_sigmoid_binary(c) ==
    IF c.weights \notin {"imagenet", "None"} THEN "ValueError:weights"
    ELSE IF c.weights = "imagenet" /\ c.include_top
            /\ c.classes # ImageNetClasses
        THEN "ValueError:classes"
    ELSE IF c.activation \notin {"softmax", "sigmoid"}
        THEN "ValueError:activation"
    ELSE IF c.activation = "sigmoid" /\ c.classes # 2
        THEN "ValueError:sigmoid"
    ELSE "none"

\* The four checks at the head of DenseNet, in the order of the code.
DenseNet_check(c) ==
    IF c.weights \notin {"imagenet", "None"} THEN "ValueError:weights"
    ELSE IF c.weights = "imagenet" /\ c.include_top
            /\ c.classes # ImageNetClasses
        THEN "ValueError:classes"
    ELSE IF c.activation \notin {"softmax", "sigmoid"}
        THEN "ValueError:activation"
    ELSE IF c.activation = "sigmoid" /\ c.classes # 1
        THEN "ValueError:sigmoid"
    ELSE "none"

\* Validate with the Input node made before the checks.
Validate_after_input ==
    /\ entry = "DenseNet" /\ pc = "validate"
    /\ err' = DenseNet_check(cfg)
    /\ graph' = Append(graph, Node("Input", 0,
                                   Shape(DefaultSize, DefaultSize, 3)))
    /\ pc' = IF err' = "none" THEN "input" ELSE "raised"
    /\ UNCHANGED <<entry, cfg, x, nb_filter, nb_layers, final_nb_layer,
                   block_idx, fin, out, fcn>>

Validate ==
    /\ entry = "DenseNet" /\ pc = "validate"
    /\ err' = DenseNet_check(cfg)
    /\ pc' = IF err' = "none" THEN "input" ELSE "raised"
    /\ UNCHANGED <<entry, cfg, graph, x, nb_filter, nb_layers, final_nb_layer,
                   block_idx, fin, out, fcn>>

\* _obtain_input_shape with input_shape=None gives the default size; Input()
\* makes a node unless the caller's input_tensor is already a Keras tensor.
CreateInput ==
    /\ entry = "DenseNet" /\ pc = "input"
    /\ x' = Shape(DefaultSize, DefaultSize, 3)
    /\ graph' = IF cfg.input_tensor = "None"
                   THEN Append(graph, Node("Input", 0, x'))
                   ELSE graph
    /\ pc' = "create_dense_net"
    /\ UNCHANGED <<entry, cfg, err, nb_filter, nb_layers, final_nb_layer,
                   block_idx, fin, out, fcn>>

\* if reduction != 0.0: assert reduction <= 1.0 and reduction > 0.0
reduction_check(c) ==
    IF c.reduction.num # 0
       /\ ~(c.reduction.num <= c.reduction.den /\ c.reduction.num > 0)
        THEN "AssertionError:reduction"
        ELSE "none"

Repeat(e, n) == [i \in 1..n |-> e]

\* layer_plan with the final block's count left unhalved under bottleneck.
layer_plan_final_unhalved(c) ==
    LET l == c.nb_layers_per_block.list
        n == c.nb_layers_per_block.n
        count == (c.depth - 4) \div 3
        cnt == IF c.bottleneck THEN count \div 2 ELSE count
    IN  IF c.nb_layers_per_block.kind = "list"
            THEN IF Len(l) = 0
                    THEN [err |-> "IndexError", nb_layers |-> <<>>, final |-> 0]
                    ELSE [err |-> "none", nb_layers |-> SubSeq(l, 1, Len(l) - 1),
                          final |-> l[Len(l)]]
        ELSE IF n = -1
            THEN IF (c.depth - 4) % 3 # 0
                    THEN [err |-> "AssertionError:depth", nb_layers |-> <<>>,
                          final |-> 0]
                    ELSE [err |-> "none",
                          nb_layers |-> Repeat(cnt, c.nb_dense_block),
                          final |-> count]
        ELSE [err |-> "none", nb_layers |-> Repeat(n, c.nb_dense_block),
              final |-> n]

\* The layers of each dense block: nb_layers, final_nb_layer, or the error.
layer_plan(c) ==
    LET l == c.nb_layers_per_block.list
        n == c.nb_layers_per_block.n
        count == (c.depth - 4) \div 3
        cnt == IF c.bottleneck THEN count \div 2 ELSE count
    IN  IF c.nb_layers_per_block.kind = "list"
            THEN IF Len(l) = 0
                    THEN [err |-> "IndexError", nb_layers |-> <<>>, final |-> 0]
                    ELSE [err |-> "none", nb_layers |-> SubSeq(l, 1, Len(l) - 1),
                          final |-> l[Len(l)]]
        ELSE IF n = -1
            THEN IF (c.depth - 4) % 3 # 0
                    THEN [err |-> "AssertionError:depth", nb_layers |-> <<>>,
                          final |-> 0]
                    ELSE [err |-> "none",
                          nb_layers |-> Repeat(cnt, c.nb_dense_block),
                          final |-> cnt]
        ELSE [err |-> "none", nb_layers |-> Repeat(n, c.nb_dense_block),
              final |-> n]

\* if nb_filter <= 0: nb_filter = 2 * growth_rate
initial_nb_filter(c) ==
    IF c.nb_filter <= 0 THEN 2 * c.growth_rate ELSE c.nb_filter

\* compression = 1.0 - reduction
compression(c) ==
    Ratio(c.reduction.den - c.reduction.num, c.reduction.den)

\* __create_dense_net up to the initial convolution: the assertions and the
\* layer plan.  Nothing is added to the graph.
CreateDenseNetEntry ==
    /\ entry = "DenseNet" /\ pc = "create_dense_net"
    /\ LET e1 == reduction_check(cfg)
           lp == layer_plan(cfg)
       IN  IF e1 # "none"
               THEN /\ err' = e1
                    /\ pc' = "raised"
                    /\ UNCHANGED <<nb_layers, final_nb_layer, nb_filter>>
           ELSE IF lp.err # "none"
               THEN /\ err' = lp.err
                    /\ pc' = "raised"
                    /\ UNCHANGED <<nb_layers, final_nb_layer, nb_filter>>
           ELSE /\ nb_layers' = lp.nb_layers
                /\ final_nb_layer' = lp.final
                /\ nb_filter' = initial_nb_filter(cfg)
                /\ pc' = "stem"
                /\ UNCHANGED err
    /\ UNCHANGED <<entry, cfg, graph, x, block_idx, fin, out, fcn>>

\* Initial convolution, strided when subsample_initial_block
InitialConv ==
    /\ entry = "DenseNet" /\ pc = "stem"
    /\ x' = Conv2D(x, nb_filter, IF cfg.subsample_initial_block THEN 2 ELSE 1)
    /\ graph' = Append(graph, Node("Conv2D", 0, x'))
    /\ pc' = IF cfg.subsample_initial_block THEN "pool" ELSE "blocks"
    /\ UNCHANGED <<entry, cfg, err, nb_filter, nb_layers, final_nb_layer,
                   block_idx, fin, out, fcn>>

\* if subsample_initial_block: BN, relu, MaxPooling2D
InitialPool ==
    /\ entry = "DenseNet" /\ pc = "pool"
    /\ x' = MaxPooling2D(SameShape(SameShape(x)))
    /\ graph' = Append(graph, Node("MaxPooling2D", 0, x'))
    /\ pc' = "blocks"
    /\ UNCHANGED <<entry, cfg, err, nb_filter, nb_layers, final_nb_layer,
                   block_idx, fin, out, fcn>>

\* DenseBlock going on to the next iteration without a transition block.
DenseBlock_no_transition ==
    /\ entry = "DenseNet" /\ pc = "blocks"
    /\ block_idx < cfg.nb_dense_block - 1
    /\ IF block_idx + 1 > Len(nb_layers)
          THEN /\ err' = "IndexError"
               /\ pc' = "raised"
               /\ UNCHANGED <<x, nb_filter, graph, block_idx>>
          ELSE LET r == dense_block(x, nb_layers[block_idx + 1], nb_filter,
                                    cfg.growth_rate, cfg.bottleneck, TRUE)
               IN  /\ x' = r.x
                   /\ nb_filter' = r.nb_filter
                   /\ graph' = Append(graph, Node("dense_block",
                                                  nb_layers[block_idx + 1], r.x))
                   /\ block_idx' = block_idx + 1
                   /\ pc' = "blocks"
                   /\ UNCHANGED err
    /\ UNCHANGED <<entry, cfg, nb_layers, final_nb_layer, fin, out, fcn>>

\* for block_idx in range(nb_dense_block - 1): the dense block of the body.
\* nb_layers[block_idx] raises IndexError past the end of the list.
DenseBlock ==
    /\ entry = "DenseNet" /\ pc = "blocks"
    /\ block_idx < cfg.nb_dense_block - 1
    /\ IF block_idx + 1 > Len(nb_layers)
          THEN /\ err' = "IndexError"
               /\ pc' = "raised"
               /\ UNCHANGED <<x, nb_filter, graph>>
          ELSE LET r == dense_block(x, nb_layers[block_idx + 1], nb_filter,
                                    cfg.growth_rate, cfg.bottleneck, TRUE)
               IN  /\ x' = r.x
                   /\ nb_filter' = r.nb_filter
                   /\ graph' = Append(graph, Node("dense_block",
                                                  nb_layers[block_idx + 1], r.x))
                   /\ pc' = "transition"
                   /\ UNCHANGED err
    /\ UNCHANGED <<entry, cfg, nb_layers, final_nb_layer, block_idx, fin, out,
                   fcn>>

\* the transition block of the loop body and the end of the iteration
TransitionBlock ==
    /\ entry = "DenseNet" /\ pc = "transition"
    /\ x' = transition_block(x, nb_filter, compression(cfg))
    /\ nb_filter' = int_times(nb_filter, compression(cfg))
    /\ graph' = Append(graph, Node("transition_block", 0, x'))
    /\ block_idx' = block_idx + 1
    /\ pc' = "blocks"
    /\ UNCHANGED <<entry, cfg, err, nb_layers, final_nb_layer, fin, out,
                   fcn>>

\* The last dense_block does not have a transition_block
FinalDenseBlock ==
    /\ entry = "DenseNet" /\ pc = "blocks"
    /\ ~(block_idx < cfg.nb_dense_block - 1)
    /\ LET r == dense_block(x, final_nb_layer, nb_filter, cfg.growth_rate,
                            cfg.bottleneck, TRUE)
       IN  /\ x' = r.x
           /\ nb_filter' = r.nb_filter
           /\ graph' = Append(graph, Node("dense_block", final_nb_layer, r.x))
    /\ pc' = "tail"
    /\ UNCHANGED <<entry, cfg, err, nb_layers, final_nb_layer, block_idx, fin,
                   out, fcn>>

\* BN, relu ('feature'), GlobalAveragePooling2D
GlobalPool ==
    /\ entry = "DenseNet" /\ pc = "tail"
    /\ x' = Shape(1, 1, SameShape(SameShape(x)).c)
    /\ graph' = Append(graph, Node("GlobalAveragePooling2D", 0, x'))
    /\ pc' = IF cfg.include_top THEN "head" ELSE "model"
    /\ UNCHANGED <<entry, cfg, err, nb_filter, nb_layers, final_nb_layer,
                   block_idx, fin, out, fcn>>

\* if include_top: Dense(nb_classes, activation=activation)
Top ==
    /\ entry = "DenseNet" /\ pc = "head"
    /\ x' = Shape(1, 1, cfg.classes)
    /\ graph' = Append(graph, Node("Dense", 0, x'))
    /\ pc' = "model"
    /\ UNCHANGED <<entry, cfg, err, nb_filter, nb_layers, final_nb_layer,
                   block_idx, fin, out, fcn>>

\* model = Model(inputs, x, name='densenet'); return model
ReturnModel ==
    /\ entry = "DenseNet" /\ pc = "model"
    /\ out' = [NoOut EXCEPT !.ok = TRUE, !.t = x]
    /\ pc' = "done"
    /\ UNCHANGED <<entry, cfg, err, graph, x, nb_filter, nb_layers,
                   final_nb_layer, block_idx, fin, fcn>>

\* ------------------------------------------------- helpers called directly
HelperDone(o) ==
    /\ out' = o
    /\ pc' = "done"
    /\ UNCHANGED <<entry, cfg, err, graph, x, nb_filter, nb_layers,
                   final_nb_layer, block_idx, fin, fcn>>

DenseBlockCall ==
    /\ entry = "dense_block" /\ pc = "call"
    /\ LET r == dense_block(fin.x, fin.nb_layers, fin.nb_filter,
                            fin.growth_rate, fin.bottleneck,
                            fin.grow_nb_filters)
       IN  HelperDone([ok |-> TRUE, err |-> "none", t |-> r.x,
                       nb_filter |-> r.nb_filter, x_list |-> r.x_list])

TransitionBlockCall ==
    /\ entry = "transition_block" /\ pc = "call"
    /\ HelperDone([NoOut EXCEPT !.ok = TRUE,
                                !.t = transition_block(fin.x, fin.nb_filter,
                                                       fin.comp)])

TransitionUpCall ==
    /\ entry = "transition_up_block" /\ pc = "call"
    /\ LET r == transition_up_block(fin.x, fin.nb_filter, fin.type)
       IN  HelperDone([NoOut EXCEPT !.ok = r.ok, !.err = r.err, !.t = r.t,
                                    !.x_list = transition_up_tensors(
                                        fin.x, fin.nb_filter, fin.type)])

\* SubPixelUpscaling(scale_factor=s)(x): the layer applied to a tensor
SubPixelApply ==
    /\ entry = "SubPixelUpscaling" /\ pc = "call"
    /\ LET r == SubPixelUpscaling_call(fin.x, fin.scale_factor)
       IN  HelperDone([NoOut EXCEPT !.ok = r.ok, !.err = r.err, !.t = r.t])

\* SubPixelUpscaling(scale_factor=s).compute_output_shape(input_shape)
ComputeOutputShapeCall ==
    /\ entry = "compute_output_shape" /\ pc = "call"
    /\ HelperDone([NoOut EXCEPT !.ok = TRUE,
                                !.t = compute_output_shape(fin.x,
                                                           fin.scale_factor)])

\* -------------------------------------------------- __create_fcn_dense_net
\* concatenate(ts, axis=concat_axis) of a list of tensors
RECURSIVE concatenate_list(_)
concatenate_list(ts) ==
    IF Len(ts) = 1 THEN ts[1]
    ELSE concatenate(concatenate_list(SubSeq(ts, 1, Len(ts) - 1)), ts[Len(ts)])

\* q[::-1]
Reverse(q) == [i \in 1..Len(q) |-> q[Len(q) + 1 - i]]

\* nb_layers and bottleneck_nb_layers: a list is followed by its reverse
\* without the reverse's first entry; an int is repeated 2 * nb_dense_block + 1
\* times.
fcn_layer_plan(a) ==
    LET l == a.nb_layers_per_block.list
        n == a.nb_layers_per_block.n
    IN  IF a.nb_layers_per_block.kind = "list"
            THEN IF Len(l) = 0
                    THEN [err |-> "IndexError", nb_layers |-> <<>>,
                          bottleneck_nb_layers |-> 0]
                    ELSE [err |-> "none", nb_layers |-> l \o Tail(Reverse(l)),
                          bottleneck_nb_layers |-> l[Len(l)]]
        ELSE [err |-> "none",
              nb_layers |-> Repeat(n, 2 * a.nb_dense_block + 1),
              bottleneck_nb_layers |-> n]

FcnRaise(e) ==
    /\ err' = e
    /\ pc' = "raised"

\* up to the initial convolution: the reduction assertion and the layer plan
FcnEntry ==
    /\ entry = "create_fcn_dense_net" /\ pc = "call"
    /\ LET e1 == reduction_check(fin)
           lp == fcn_layer_plan(fin)
       IN  IF e1 # "none"
               THEN FcnRaise(e1) /\ UNCHANGED <<nb_layers, fcn>>
           ELSE IF lp.err # "none"
               THEN FcnRaise(lp.err) /\ UNCHANGED <<nb_layers, fcn>>
           ELSE /\ nb_layers' = lp.nb_layers
                /\ fcn' = [fcn EXCEPT !.bottleneck_nb_layers =
                                          lp.bottleneck_nb_layers]
                /\ pc' = "fcn_stem"
                /\ UNCHANGED err
    /\ UNCHANGED <<entry, cfg, graph, x, nb_filter, final_nb_layer, block_idx,
                   fin, out>>

\* 7x7 convolution to init_conv_filters, BN, relu; skip_list = []
FcnInitialConv ==
    /\ entry = "create_fcn_dense_net" /\ pc = "fcn_stem"
    /\ x' = SameShape(SameShape(Conv2D(fin.img_input, fin.init_conv_filters,
                                       1)))
    /\ nb_filter' = fin.init_conv_filters
    /\ fcn' = [fcn EXCEPT !.skip_list = <<>>]
    /\ graph' = Append(graph, Node("Conv2D", 0, x'))
    /\ block_idx' = 0
    /\ pc' = "fcn_down"
    /\ UNCHANGED <<entry, cfg, err, nb_layers, final_nb_layer, fin, out>>

\* the dense block of an encoder stage and skip_list.append(x)
FcnDenseBlock ==
    /\ entry = "create_fcn_dense_net" /\ pc = "fcn_down"
    /\ block_idx < fin.nb_dense_block
    /\ IF block_idx + 1 > Len(nb_layers)
          THEN FcnRaise("IndexError") /\ UNCHANGED <<x, nb_filter, graph, fcn>>
          ELSE LET r == dense_block(x, nb_layers[block_idx + 1], nb_filter,
                                    fin.growth_rate, FALSE, TRUE)
               IN  /\ x' = r.x
                   /\ nb_filter' = r.nb_filter
                   /\ fcn' = [fcn EXCEPT !.skip_list =
                                 Append(@, [stage |-> block_idx, t |-> r.x])]
                   /\ graph' = Append(graph, Node("dense_block",
                                                  nb_layers[block_idx + 1], r.x))
                   /\ pc' = "fcn_transition"
                   /\ UNCHANGED err
    /\ UNCHANGED <<entry, cfg, nb_layers, final_nb_layer, block_idx, fin, out>>

\* the transition down of an encoder stage
FcnTransitionDown ==
    /\ entry = "create_fcn_dense_net" /\ pc = "fcn_transition"
    /\ x' = transition_block(x, nb_filter, compression(fin))
    /\ nb_filter' = int_times(nb_filter, compression(fin))
    /\ graph' = Append(graph, Node("transition_block", 0, x'))
    /\ block_idx' = block_idx + 1
    /\ pc' = "fcn_down"
    /\ UNCHANGED <<entry, cfg, err, nb_layers, final_nb_layer, fin, out, fcn>>

\* FcnBottleneck with skip_list left in the order it was filled.
FcnBottleneck_skips_in_order ==
    /\ entry = "create_fcn_dense_net" /\ pc = "fcn_down"
    /\ block_idx = fin.nb_dense_block
    /\ LET r == dense_block(x, fcn.bottleneck_nb_layers, nb_filter,
                            fin.growth_rate, FALSE, TRUE)
       IN  /\ nb_filter' = r.nb_filter
           /\ fcn' = [fcn EXCEPT !.concat_list = r.x_list]
           /\ graph' = Append(graph, Node("dense_block",
                                          fcn.bottleneck_nb_layers, r.x))
    /\ block_idx' = 0
    /\ pc' = "fcn_up"
    /\ UNCHANGED <<entry, cfg, err, x, nb_layers, final_nb_layer, fin, out>>

\* The last dense block of the encoder: its tensor is dropped, its filter
\* count and concat_list are kept; then skip_list = skip_list[::-1].
FcnBottleneck ==
    /\ entry = "create_fcn_dense_net" /\ pc = "fcn_down"
    /\ block_idx = fin.nb_dense_block
    /\ LET r == dense_block(x, fcn.bottleneck_nb_layers, nb_filter,
                            fin.growth_rate, FALSE, TRUE)
       IN  /\ nb_filter' = r.nb_filter
           /\ fcn' = [fcn EXCEPT !.concat_list = r.x_list,
                                 !.skip_list = Reverse(@)]
           /\ graph' = Append(graph, Node("dense_block",
                                          fcn.bottleneck_nb_layers, r.x))
    /\ block_idx' = 0
    /\ pc' = "fcn_up"
    /\ UNCHANGED <<entry, cfg, err, x, nb_layers, final_nb_layer, fin, out>>

\* n_filters_keep, l = concatenate(concat_list[1:]) and the transition up
FcnTransitionUp ==
    /\ entry = "create_fcn_dense_net" /\ pc = "fcn_up"
    /\ block_idx < fin.nb_dense_block
    /\ IF fin.nb_dense_block + block_idx + 1 > Len(nb_layers)
          THEN FcnRaise("IndexError") /\ UNCHANGED <<fcn, graph>>
          ELSE LET keep == fin.growth_rate
                               * nb_layers[fin.nb_dense_block + block_idx + 1]
                   l == concatenate_list(Tail(fcn.concat_list))
                   r == transition_up_block(l, keep, fin.upsampling_type)
               IN  /\ fcn' = [fcn EXCEPT !.n_filters_keep = keep, !.l = l,
                                         !.t = r.t]
                   /\ IF r.ok
                         THEN /\ graph' = Append(graph,
                                      Node("transition_up_block", 0, r.t))
                              /\ pc' = "fcn_skip"
                              /\ UNCHANGED err
                         ELSE FcnRaise(r.err) /\ UNCHANGED graph
    /\ UNCHANGED <<entry, cfg, x, nb_filter, nb_layers, final_nb_layer,
                   block_idx, fin, out>>

\* x = concatenate([t, skip_list[block_idx]]): the two tensors must agree
\* on every axis but the channel axis
FcnSkipConcat ==
    /\ entry = "create_fcn_dense_net" /\ pc = "fcn_skip"
    /\ LET s == fcn.skip_list[block_idx + 1]
       IN  IF fcn.t.h = s.t.h /\ fcn.t.w = s.t.w
              THEN /\ x' = concatenate(fcn.t, s.t)
                   /\ fcn' = [fcn EXCEPT !.joined =
                                 Append(@, [decoder |-> block_idx,
                                            encoder |-> s.stage])]
                   /\ graph' = Append(graph, Node("concatenate", 0, x'))
                   /\ pc' = "fcn_up_dense"
                   /\ UNCHANGED err
              ELSE FcnRaise("ValueError:concatenate")
                   /\ UNCHANGED <<x, fcn, graph>>
    /\ UNCHANGED <<entry, cfg, nb_filter, nb_layers, final_nb_layer, block_idx,
                   fin, out>>

\* the dense block of a decoder stage: nb_filter = growth_rate and
\* grow_nb_filters = False; its tensor is x_up, x is left as it is
FcnUpDenseBlock ==
    /\ entry = "create_fcn_dense_net" /\ pc = "fcn_up_dense"
    /\ IF fin.nb_dense_block + block_idx + 2 > Len(nb_layers)
          THEN FcnRaise("IndexError")
               /\ UNCHANGED <<nb_filter, fcn, graph, block_idx>>
          ELSE LET n == nb_layers[fin.nb_dense_block + block_idx + 2]
                   r == dense_block(x, n, fin.growth_rate, fin.growth_rate,
                                    FALSE, FALSE)
               IN  /\ nb_filter' = r.nb_filter
                   /\ fcn' = [fcn EXCEPT !.x_up = r.x,
                                         !.concat_list = r.x_list]
                   /\ graph' = Append(graph, Node("dense_block", n, r.x))
                   /\ block_idx' = block_idx + 1
                   /\ pc' = "fcn_up"
                   /\ UNCHANGED err
    /\ UNCHANGED <<entry, cfg, x, nb_layers, final_nb_layer, fin, out>>

\* include_top: 1x1 convolution to nb_classes, Reshape((row * col,
\* nb_classes)), Activation(activation), Reshape((row, col, nb_classes)); a
\* Reshape keeps the number of elements, and Activation looks its name up
\* among the activation functions, where 'deconv' is not
FcnTop ==
    /\ entry = "create_fcn_dense_net" /\ pc = "fcn_up"
    /\ block_idx = fin.nb_dense_block
    /\ IF fin.include_top
          THEN LET c == Conv2D(fcn.x_up, fin.nb_classes, 1)
               IN  IF c.h * c.w # fin.input_shape.h * fin.input_shape.w
                      THEN FcnRaise("ValueError:reshape")
                           /\ UNCHANGED <<x, graph>>
                   ELSE IF fin.activation = "deconv"
                      THEN FcnRaise("ValueError:activation")
                           /\ UNCHANGED <<x, graph>>
                   ELSE /\ x' = Shape(fin.input_shape.h, fin.input_shape.w,
                                      fin.nb_classes)
                        /\ graph' = Append(graph, Node("Conv2D", 0, x'))
                        /\ pc' = "fcn_return"
                        /\ UNCHANGED err
          ELSE /\ x' = fcn.x_up
               /\ pc' = "fcn_return"
               /\ UNCHANGED <<err, graph>>
    /\ UNCHANGED <<entry, cfg, nb_filter, nb_layers, final_nb_layer, block_idx,
                   fin, out, fcn>>

\* return x
FcnReturn ==
    /\ entry = "create_fcn_dense_net" /\ pc = "fcn_return"
    /\ out' = [NoOut EXCEPT !.ok = TRUE, !.t = x]
    /\ pc' = "done"
    /\ UNCHANGED <<entry, cfg, err, graph, x, nb_filter, nb_layers,
                   final_nb_layer, block_idx, fin, fcn>>

\* ------------------------------------------------------------------- Next
Next ==
    \/ Validate
    \/ CreateInput
    \/ CreateDenseNetEntry
    \/ InitialConv
    \/ InitialPool
    \/ DenseBlock
    \/ TransitionBlock
    \/ FinalDenseBlock
    \/ GlobalPool
    \/ Top
    \/ ReturnModel
    \/ DenseBlockCall
    \/ TransitionBlockCall
    \/ TransitionUpCall
    \/ SubPixelApply
    \/ ComputeOutputShapeCall
    \/ FcnEntry
    \/ FcnInitialConv
    \/ FcnDenseBlock
    \/ FcnTransitionDown
    \/ FcnBottleneck
    \/ FcnTransitionUp
    \/ FcnSkipConcat
    \/ FcnUpDenseBlock
    \/ FcnTop
    \/ FcnReturn

Spec == Init /\ [][Next]_vars

\* ================================================================ claims
ValueErrors == {"ValueError:weights", "ValueError:classes",
                "ValueError:activation", "ValueError:sigmoid"}

AssertionErrors == {"AssertionError:reduction", "AssertionError:depth"}

Validated == entry = "DenseNet" /\ pc # "validate"

\* C1 as stated: whenever one of the six rejections has surfaced, no graph
\* node exists, the Input node included.
C1_NoNodeAtAnyRejection ==
    (entry = "DenseNet" /\ err \in ValueErrors \cup AssertionErrors)
        => graph = <<>>

\* C1, amended: a rejection by one of the four checks of DenseNet surfaces
\* with an empty graph; a rejection by the reduction or the depth assertion
\* of __create_dense_net surfaces with the Input node made (when the caller
\* passed no Keras input_tensor) and no other node.
C1_FailFast ==
    entry = "DenseNet" =>
        /\ err \in ValueErrors => graph = <<>>
        /\ err \in AssertionErrors =>
              /\ Len(graph) = (IF cfg.input_tensor = "None" THEN 1 ELSE 0)
              /\ \A i \in 1..Len(graph) : graph[i].op = "Input"

C1_Witness ==
    /\ entry = "DenseNet" /\ pc = "raised"
    /\ err = "AssertionError:reduction"
    /\ Len(graph) = 1 /\ graph[1].op = "Input"

\* C2 as stated: a call with nb_layers_per_block a list of length
\* nb_dense_block ends in an error and returns no model.
C2_ListOfBlockLengthRejected ==
    (/\ entry = "DenseNet"
     /\ cfg.nb_layers_per_block.kind = "list"
     /\ Len(cfg.nb_layers_per_block.list) = cfg.nb_dense_block
     /\ pc \in {"done", "raised"})
        => (pc = "raised" /\ err # "none")

\* C3: once the checks of DenseNet have run, weights='imagenet' with
\* include_top and classes != 1000 has raised the class-count ValueError, and
\* weights='imagenet' with include_top false or classes = 1000 has not.
C3_ImagenetClasses ==
    (Validated /\ cfg.weights = "imagenet") =>
        IF cfg.include_top /\ cfg.classes # 1000
            THEN pc = "raised" /\ err = "ValueError:classes"
            ELSE err # "ValueError:classes"

C3_Witness ==
    /\ Validated /\ cfg.weights = "imagenet" /\ cfg.include_top
    /\ cfg.classes = 2 /\ err = "ValueError:classes"

\* C4: once the checks of DenseNet have run, activation='sigmoid' with
\* classes != 1 has raised a ValueError, an activation outside {softmax,
\* sigmoid} has raised a ValueError, and activation='sigmoid' with classes = 1
\* has raised neither of the two activation errors.
C4_Activation ==
    Validated =>
        /\ (cfg.activation = "sigmoid" /\ cfg.classes # 1)
              => (pc = "raised" /\ err \in ValueErrors)
        /\ cfg.activation \notin {"softmax", "sigmoid"}
              => (pc = "raised" /\ err \in ValueErrors)
        /\ (cfg.activation = "sigmoid" /\ cfg.classes = 1)
              => err \notin {"ValueError:activation", "ValueError:sigmoid"}
        /\ (cfg.activation = "sigmoid" /\ cfg.classes = 1
            /\ cfg.weights = "None") => err = "none"

C4_Witness ==
    /\ Validated /\ cfg.activation = "sigmoid" /\ cfg.classes = 2
    /\ cfg.weights = "None" /\ err = "ValueError:sigmoid"

HelperDoneAt(e) == entry = e /\ pc = "done"

\* C5 as stated: a dense block's output tensor has C + n_layers * growth_rate
\* channels when grow_nb_filters is enabled and C channels when it is not.
C5_ChannelsFollowGrowFlag ==
    HelperDoneAt("dense_block") =>
        out.t.c = IF fin.grow_nb_filters
                     THEN fin.x.c + fin.nb_layers * fin.growth_rate
                     ELSE fin.x.c

\* C5, amended: a dense block's output tensor has C + n_layers * growth_rate
\* channels whether grow_nb_filters is enabled or not; the returned filter
\* count is nb_filter + n_layers * growth_rate when it is enabled and
\* nb_filter when it is not.  The same holds of every dense block of the
\* classification builder, whose input is the stage before it.
C5_DenseBlockChannels ==
    /\ HelperDoneAt("dense_block") =>
          /\ out.t.c = fin.x.c + fin.nb_layers * fin.growth_rate
          /\ out.nb_filter = IF fin.grow_nb_filters
                                THEN fin.nb_filter
                                     + fin.nb_layers * fin.growth_rate
                                ELSE fin.nb_filter
    /\ entry = "DenseNet" =>
          \A i \in 2..Len(graph) :
              graph[i].op = "dense_block" =>
                  graph[i].t.c = graph[i - 1].t.c
                                 + graph[i].layers * cfg.growth_rate

C5_Witness ==
    /\ HelperDoneAt("dense_block")
    /\ ~fin.grow_nb_filters /\ fin.nb_layers = 2 /\ fin.bottleneck
    /\ out.t.c = fin.x.c + 2 * fin.growth_rate
    /\ out.nb_filter = fin.nb_filter

\* C6 as stated: each of the three strategies maps (H, W, C) to
\* (2H, 2W, C_target), for any C and any C_target.
C6_UpBlockShape ==
    HelperDoneAt("transition_up_block") =>
        /\ out.ok
        /\ out.t = Shape(2 * fin.x.h, 2 * fin.x.w, fin.nb_filter)

\* C6, the strategy 'subpixel' alone: it maps (H, W, C) to (2H, 2W,
\* C_target).
C6_SubpixelShape ==
    (HelperDoneAt("transition_up_block") /\ fin.type = "subpixel") =>
        /\ out.ok
        /\ out.t = Shape(2 * fin.x.h, 2 * fin.x.w, fin.nb_filter)

\* C7: __transition_block maps (H, W, C) with filter count nb_filter and
\* compression k to (H div 2, W div 2, floor(nb_filter * k)); in the
\* classification builder every transition block halves the rows and the
\* columns of the dense block before it.
C7_TransitionShape ==
    /\ HelperDoneAt("transition_block") =>
          /\ 2 * out.t.h <= fin.x.h /\ fin.x.h <= 2 * out.t.h + 1
          /\ 2 * out.t.w <= fin.x.w /\ fin.x.w <= 2 * out.t.w + 1
          /\ out.t.c * fin.comp.den <= fin.nb_filter * fin.comp.num
          /\ fin.nb_filter * fin.comp.num < (out.t.c + 1) * fin.comp.den
    /\ entry = "DenseNet" =>
          \A i \in 2..Len(graph) :
              graph[i].op = "transition_block" =>
                  /\ graph[i].t.h = graph[i - 1].t.h \div 2
                  /\ graph[i].t.w = graph[i - 1].t.w \div 2

C7_Witness ==
    /\ HelperDoneAt("transition_block")
    /\ fin.x = Shape(3, 2, 1) /\ fin.nb_filter = 5 /\ fin.comp = Ratio(1, RedDen)
    /\ out.t = Shape(1, 1, 5 \div RedDen)

\* C8: with nb_layers_per_block = -1 and (depth - 4) mod 3 = 0 every dense
\* block built, the final one included, has (depth - 4) / 3 layers, halved
\* (integer division) under bottleneck, and a finished model has
\* nb_dense_block of them; with (depth - 4) mod 3 # 0 the call gets no
\* further than the assertions of __create_dense_net and ends in an
\* assertion error.
DenseNodes == {i \in 1..Len(graph) : graph[i].op = "dense_block"}

C8_DepthDerivedLayers ==
    (entry = "DenseNet" /\ cfg.nb_layers_per_block = IntLayers(-1)) =>
        IF (cfg.depth - 4) % 3 = 0
            THEN /\ \A i \in DenseNodes :
                        IF cfg.bottleneck
                            THEN /\ 6 * graph[i].layers <= cfg.depth - 4
                                 /\ cfg.depth - 4 < 6 * (graph[i].layers + 1)
                            ELSE 3 * graph[i].layers = cfg.depth - 4
                 /\ pc = "done" => Cardinality(DenseNodes) = cfg.nb_dense_block
                 /\ err # "AssertionError:depth"
            ELSE /\ pc \in {"validate", "input", "create_dense_net", "raised"}
                 /\ pc = "raised" => err \in AssertionErrors

C8_Witness ==
    /\ entry = "DenseNet" /\ pc = "done"
    /\ cfg.nb_layers_per_block = IntLayers(-1)
    /\ cfg.depth = 10 /\ cfg.bottleneck /\ cfg.nb_dense_block = 2
    /\ \A i \in DenseNodes : graph[i].layers = 1

\* The conceptual inverse of the rearrangement: space-to-depth on shapes.
space_to_depth(s, scale_factor) ==
    Shape(s.h \div scale_factor, s.w \div scale_factor,
          s.c * scale_factor * scale_factor)

\* C9 as stated: SubPixelUpscaling with scale factor s maps (H, W, k * s^2)
\* to (s * H, s * W, k), space-to-depth on that shape restores the input, and
\* an input whose channels s^2 does not divide is not accepted.
C9_SubPixelShape ==
    (pc = "done" /\ entry \in {"SubPixelUpscaling", "compute_output_shape"}) =>
        LET s == fin.scale_factor
        IN  IF fin.x.c % (s * s) = 0
                THEN /\ out.ok
                     /\ out.t = Shape(s * fin.x.h, s * fin.x.w,
                                      fin.x.c \div (s * s))
                     /\ space_to_depth(out.t, s) = fin.x
                ELSE ~out.ok

\* C9, the declared output shape alone: compute_output_shape accepts only
\* channel counts s^2 divides.
C9_ShapeRejectsIndivisible ==
    (HelperDoneAt("compute_output_shape")
     /\ fin.x.c % (fin.scale_factor * fin.scale_factor) # 0) => ~out.ok

\* C10: the stages of the classification builder come in the order stem
\* convolution, optional max-pool, nb_dense_block - 1 pairs of a dense block
\* and a transition block, the final dense block, the global pooling, the
\* optional head (after the Input node DenseNet made, if it made one): the
\* graph is at every moment a prefix of that sequence, and the whole of it
\* when the model is returned.
Ops(g) == [i \in 1..Len(g) |-> g[i].op]

Pairs(n) ==
    [i \in 1..(2 * n) |-> IF i % 2 = 1 THEN "dense_block"
                                       ELSE "transition_block"]

ExpectedOps(c) ==
    (IF c.input_tensor = "None" THEN <<"Input">> ELSE <<>>)
    \o <<"Conv2D">>
    \o (IF c.subsample_initial_block THEN <<"MaxPooling2D">> ELSE <<>>)
    \o Pairs(c.nb_dense_block - 1)
    \o <<"dense_block", "GlobalAveragePooling2D">>
    \o (IF c.include_top THEN <<"Dense">> ELSE <<>>)

IsPrefix(p, q) == Len(p) <= Len(q) /\ p = SubSeq(q, 1, Len(p))

C10_StageOrder ==
    entry = "DenseNet" =>
        /\ IsPrefix(Ops(graph), ExpectedOps(cfg))
        /\ pc = "done" =>
              /\ Ops(graph) = ExpectedOps(cfg)
              /\ Cardinality(DenseNodes) = cfg.nb_dense_block
              /\ Cardinality({i \in 1..Len(graph) :
                                 graph[i].op = "transition_block"})
                     = cfg.nb_dense_block - 1

C10_Witness ==
    /\ entry = "DenseNet" /\ pc = "done"
    /\ cfg.nb_dense_block = 2 /\ cfg.subsample_initial_block /\ cfg.include_top
    /\ Ops(graph) = <<"Input", "Conv2D", "MaxPooling2D", "dense_block",
                      "transition_block", "dense_block",
                      "GlobalAveragePooling2D", "Dense">>

\* the segmentation builder at one of the places pcs
FcnAt(pcs) == entry = "create_fcn_dense_net" /\ pc \in pcs

\* layers of the dense block built before decoder stage block_idx
PrecedingLayers ==
    IF block_idx = 0 THEN fcn.bottleneck_nb_layers
                     ELSE nb_layers[fin.nb_dense_block + block_idx + 1]

\* C11: in the segmentation builder the skip tensors are read last in, first
\* out: decoder stage i joins the transition-up output with the tensor that
\* encoder stage nb_dense_block - 1 - i recorded, a finished build has read
\* every recorded tensor in exactly one decoder stage, and the tensor given to
\* each transition up is the concatenation of the preceding dense block's
\* per-layer outputs without that block's input: it has the spatial size of
\* the block's input and growth_rate channels per layer of the block.
C11_SkipsReadLastInFirstOut ==
    entry = "create_fcn_dense_net" =>
        /\ \A k \in 1..Len(fcn.joined) :
              fcn.joined[k] = [decoder |-> k - 1,
                               encoder |-> fin.nb_dense_block - k]
        /\ pc \in {"fcn_up", "fcn_skip", "fcn_up_dense"} =>
              /\ Len(fcn.skip_list) = fin.nb_dense_block
              /\ \A i \in 1..Len(fcn.skip_list) :
                    fcn.skip_list[i].stage = fin.nb_dense_block - i
        /\ pc \in {"fcn_return", "done"} =>
              Len(fcn.joined) = fin.nb_dense_block
        /\ pc = "fcn_skip" =>
              /\ fcn.l.h = x.h /\ fcn.l.w = x.w
              /\ fcn.l.c = fin.growth_rate * PrecedingLayers

C11_Witness ==
    /\ FcnAt({"done"})
    /\ fin.nb_dense_block = 2
    /\ fin.upsampling_type = "deconv"
    /\ fcn.joined = <<[decoder |-> 0, encoder |-> 1],
                      [decoder |-> 1, encoder |-> 0]>>
    /\ fcn.l.c = fin.growth_rate * 3

\* C12 as stated: in the sub-pixel variant with target filter count F the
\* first convolution makes F * 4 channels, the rearrangement makes a tensor
\* of twice the rows and columns with F channels, and the second convolution
\* keeps F channels.
C12_SubpixelChannels ==
    (HelperDoneAt("transition_up_block") /\ fin.type = "subpixel") =>
        /\ out.ok
        /\ Len(out.x_list) = 3
        /\ out.x_list[1] = Shape(fin.x.h, fin.x.w, fin.nb_filter * 4)
        /\ out.x_list[2] = Shape(2 * fin.x.h, 2 * fin.x.w, fin.nb_filter)
        /\ out.x_list[3] = Shape(2 * fin.x.h, 2 * fin.x.w, fin.nb_filter)

\* C12, the first convolution alone: it makes F * 4 channels.
C12_FirstConvChannels ==
    (HelperDoneAt("transition_up_block") /\ fin.type = "subpixel") =>
        /\ Len(out.x_list) >= 1
        /\ out.x_list[1].c = fin.nb_filter * 4

\* C13 as stated: with nb_layers_per_block a list of length
\* nb_dense_block + 1, every entry is the layer count of exactly one dense
\* block of the finished model, so the layers built are the sum of the list.
RECURSIVE SumSeq(_)
SumSeq(q) == IF q = <<>> THEN 0 ELSE q[1] + SumSeq(Tail(q))

DenseLayers(g) ==
    SumSeq([i \in 1..Len(g) |-> IF g[i].op = "dense_block" THEN g[i].layers
                                                           ELSE 0])

C13_EveryListEntryUsed ==
    (/\ entry = "DenseNet" /\ pc = "done"
     /\ cfg.nb_layers_per_block.kind = "list"
     /\ Len(cfg.nb_layers_per_block.list) = cfg.nb_dense_block + 1)
        => DenseLayers(graph) = SumSeq(cfg.nb_layers_per_block.list)

\* C14: in the classification builder, from the initial convolution to the
\* global pooling, the tracked nb_filter is the channel count of the current
\* tensor x: after the stem, after every dense block and after every
\* transition block; a non-positive nb_filter argument has become
\* 2 * growth_rate at the stem.
C14_FilterCountTracksChannels ==
    entry = "DenseNet" =>
        /\ pc \in {"pool", "blocks", "transition", "tail"} => x.c = nb_filter
        /\ \A i \in 1..Len(graph) :
              graph[i].op = "Conv2D" =>
                  graph[i].t.c = IF cfg.nb_filter <= 0
                                    THEN 2 * cfg.growth_rate
                                    ELSE cfg.nb_filter

C14_Witness ==
    /\ entry = "DenseNet" /\ pc = "blocks" /\ block_idx = 1
    /\ cfg.nb_filter = -1 /\ cfg.growth_rate = 2 /\ cfg.bottleneck
    /\ cfg.reduction = Ratio(1, RedDen)
    /\ cfg.nb_layers_per_block = IntLayers(1)
    /\ x.c = 6 \div RedDen /\ nb_filter = x.c

\* C15 as stated: in the segmentation builder, for each of the three
\* upsampling strategies, the transition-up output has the rows and columns
\* of the skip tensor at every decoder stage exactly when the input's rows
\* and columns are both divisible by 2^nb_dense_block.  A build that ends for
\* a reason of its layer list or its reduction is left aside.
Divisible ==
    /\ fin.input_shape.h % Pow2(fin.nb_dense_block) = 0
    /\ fin.input_shape.w % Pow2(fin.nb_dense_block) = 0

C15_ShapesMatchIffDivisible ==
    (/\ FcnAt({"done", "raised"})
     /\ err \notin {"IndexError", "AssertionError:reduction"})
        => (Len(fcn.joined) = fin.nb_dense_block <=> Divisible)

\* C15 for the two strategies whose transition up returns
C15_UpsamplingAndDeconv ==
    (/\ FcnAt({"done", "raised"})
     /\ err \notin {"IndexError", "AssertionError:reduction"}
     /\ fin.upsampling_type # "subpixel")
        => /\ Len(fcn.joined) = fin.nb_dense_block <=> Divisible
           /\ err = "ValueError:concatenate" <=> ~Divisible

\* C15, 'subpixel': the build ends at its first transition up
C15_SubpixelNeverJoins ==
    (FcnAt({"done", "raised"}) /\ fin.upsampling_type = "subpixel"
     /\ err \notin {"IndexError", "AssertionError:reduction"})
        => pc = "raised" /\ err = "NameError" /\ fcn.joined = <<>>

====
